---- MODULE Spec2Model ----
(***************************************************************************)
(* Model of app.py: a Flask application with two SQLite databases (the     *)
(* default "output" database and the bind "input_database"), and the       *)
(* request handlers that seed, list and process their records.             *)
(*                                                                         *)
(* A name is the sequence of the code points of its characters, so that    *)
(* str.split can be computed on any Unicode text; nickname and gender are  *)
(* only ever compared or copied, and are plain strings.                    *)
(*                                                                         *)
(* db is the SQLAlchemy object: the tables of the two binds and the        *)
(* session of each request thread. resp is the last response sent. pc and  *)
(* local are the position and the locals of a process_everything that runs *)
(* statement by statement. before is a history variable: the tables as     *)
(* they were when the last request served in one piece started.            *)
(***************************************************************************)
EXTENDS Integers, Sequences, FiniteSets, TLC

VARIABLES db, resp, pc, local, before

vars == <<db, resp, pc, local, before>>

(***************************************************************************)
(* Bounds of the model.                                                    *)
(***************************************************************************)
\* number of records in a source database that exists before the server starts
MaxInit == 2
\* the code's range(1, 100000) adds 99,999 records; the model adds LotsCount
LotsCount == 2
\* create_lots_of_people is not taken once the source holds MaxRows records
MaxRows == 5
\* request threads that can run handlers at the same time
NumThreads == 2

Threads == 1..NumThreads

(***************************************************************************)
(* Binds: app.config (lines 10-13) and the models' __bind_key__.           *)
(***************************************************************************)
\* the bind key None names the default database
NoBind == "None"
AllBinds == "__all__"
BindKeys == {NoBind, "input_database"}

bind_key(cls) == IF cls = "InputPerson" THEN "input_database" ELSE NoBind

(***************************************************************************)
(* Characters and str.split.                                               *)
(***************************************************************************)
\* the code points str.split() splits on (those for which str.isspace is true):
\* \t \n \v \f \r, U+001C..U+001F, space, U+0085, U+00A0, U+1680,
\* U+2000..U+200A, U+2028, U+2029, U+202F, U+205F, U+3000
Whitespace ==
    (9..13) \cup (28..32) \cup {133, 160, 5760} \cup (8192..8202)
    \cup {8232, 8233, 8239, 8287, 12288}

RECURSIVE split_from(_, _, _, _)
\* the tokens of s[i..], given the token cur being read and the tokens acc read
split_from(s, i, cur, acc) ==
    IF i > Len(s)
    THEN IF cur = <<>> THEN acc ELSE Append(acc, cur)
    ELSE IF s[i] \in Whitespace
         THEN split_from(s, i + 1, <<>>, IF cur = <<>> THEN acc ELSE Append(acc, cur))
         ELSE split_from(s, i + 1, Append(cur, s[i]), acc)

\* str.split(s) with no separator: the maximal runs of non-whitespace
split(s) == split_from(s, 1, <<>>, <<>>)

\* first_name as it would be if a name without tokens gave an empty first name
first_name_defaulted(person) ==
    LET toks == split(person.name)
    IN  IF toks = <<>> THEN [ok |-> TRUE, val |-> <<>>]
        ELSE [ok |-> TRUE, val |-> toks[1]]

\* OutputPerson.first_name: str.split(self.name)[0]; indexing [] raises IndexError
first_name(person) ==
    LET toks == split(person.name)
    IN  IF toks = <<>> THEN [ok |-> FALSE, val |-> <<>>]
        ELSE [ok |-> TRUE, val |-> toks[1]]

(***************************************************************************)
(* Model objects: an instance of InputPerson or OutputPerson before it is  *)
(* written. oid is the object's identity (two objects with the same fields *)
(* are two objects).                                                       *)
(***************************************************************************)
InputPerson(oid, name, nickname, gender, age) ==
    [cls |-> "InputPerson", oid |-> oid, name |-> name, nickname |-> nickname,
     gender |-> gender, age |-> age]

OutputPerson(oid, name, nickname, gender, age, is_cool) ==
    [cls |-> "OutputPerson", oid |-> oid, name |-> name, nickname |-> nickname,
     gender |-> gender, age |-> age, is_cool |-> is_cool]

\* the row a flush writes for obj, with the primary key the table assigns
Row(obj, id) ==
    IF obj.cls = "OutputPerson"
    THEN [id |-> id, name |-> obj.name, nickname |-> obj.nickname,
          gender |-> obj.gender, age |-> obj.age, is_cool |-> obj.is_cool]
    ELSE [id |-> id, name |-> obj.name, nickname |-> obj.nickname,
          gender |-> obj.gender, age |-> obj.age]

(***************************************************************************)
(* The db object: the tables of each bind and each thread's session.       *)
(***************************************************************************)
NoTable == [exists |-> FALSE, rows |-> <<>>]
EmptyTable == [exists |-> TRUE, rows |-> <<>>]

\* the binds that drop_all / create_all act on
binds_for(bind) == IF bind = AllBinds THEN BindKeys ELSE {bind}

\* drop_all as it would be without the bind argument: every database is wiped
drop_all_every_bind(d, bind) ==
    [d EXCEPT !.tables = [b \in BindKeys |-> NoTable]]

\* db.drop_all(bind=...): DROP TABLE of the bind's tables that exist
drop_all(d, bind) ==
    [d EXCEPT !.tables =
        [b \in BindKeys |-> IF b \in binds_for(bind) THEN NoTable ELSE d.tables[b]]]

\* db.create_all(bind=...): CREATE TABLE of the bind's tables that do not exist
create_all(d, bind) ==
    [d EXCEPT !.tables =
        [b \in BindKeys |->
            IF b \in binds_for(bind) /\ ~d.tables[b].exists
            THEN EmptyTable ELSE d.tables[b]]]

\* Model.query.all(): the table's rows in rowid order; OperationalError if no table
query_all(d, cls) ==
    LET t == d.tables[bind_key(cls)]
    IN  IF t.exists THEN [ok |-> TRUE, rows |-> t.rows]
        ELSE [ok |-> FALSE, rows |-> <<>>]

\* the largest primary key of rows, 0 if there is none
MaxId(rows) ==
    IF rows = <<>> THEN 0
    ELSE CHOOSE m \in {rows[i].id : i \in 1..Len(rows)} :
            \A i \in 1..Len(rows) : rows[i].id <= m

\* session.add as it would be if a pending object could be added again
session_add_twice(d, t, obj) ==
    [d EXCEPT !.session[t] = Append(@, obj)]

\* session.add as it would be if every add were written and committed at once
session_add_autocommit(d, t, obj) ==
    LET tb == d.tables[bind_key(obj.cls)]
    IN  IF tb.exists
        THEN [d EXCEPT !.tables[bind_key(obj.cls)].rows =
                          Append(@, Row(obj, MaxId(@) + 1))]
        ELSE d

\* db.session.add(obj): obj becomes pending; adding a pending object again does nothing
session_add(d, t, obj) ==
    IF \E i \in 1..Len(d.session[t]) : d.session[t][i].oid = obj.oid
    THEN d
    ELSE [d EXCEPT !.session[t] = Append(@, obj)]

RECURSIVE insert_all(_, _, _)
\* INSERT of the objects objs[i..] in order, each with the next primary key
insert_all(rows, objs, i) ==
    IF i > Len(objs) THEN rows
    ELSE insert_all(Append(rows, Row(objs[i], MaxId(rows) + 1)), objs, i + 1)

\* the pending objects of a session that belong to the bind b, in the order added
PendingFor(sess, b) == SelectSeq(sess, LAMBDA o : bind_key(o.cls) = b)

\* db.session.commit(): one transaction that inserts every pending object; if a
\* table is missing the flush raises OperationalError and nothing is written
session_commit(d, t) ==
    LET sess == d.session[t]
        bad == \E i \in 1..Len(sess) : ~d.tables[bind_key(sess[i].cls)].exists
    IN  IF bad
        THEN [ok |-> FALSE, db |-> [d EXCEPT !.session[t] = <<>>]]
        ELSE [ok |-> TRUE,
              db |-> [d EXCEPT
                        !.tables = [b \in BindKeys |->
                            [d.tables[b] EXCEPT !.rows =
                                insert_all(@, PendingFor(sess, b), 1)]],
                        !.session[t] = <<>>]]

\* the session is removed when the request ends (pending objects are discarded)
shutdown_session(d, t) == [d EXCEPT !.session[t] = <<>>]

(***************************************************************************)
(* Responses. http is 200, or 500 when the handler raised; raised names    *)
(* the exception; status / what_happened are the keys of the JSON error    *)
(* object; n and m are the counts in process_everything's text; body is    *)
(* the JSON list.                                                          *)
(***************************************************************************)
Response(op, text) ==
    [op |-> op, http |-> 200, raised |-> "none", text |-> text, n |-> 0, m |-> 0,
     status |-> "", what_happened |-> "", body |-> <<>>]

Unhandled(op, exc) == [Response(op, "") EXCEPT !.http = 500, !.raised = exc]

NoResponse == Response("none", "")

(***************************************************************************)
(* create_input_database (lines 53-95)                                     *)
(***************************************************************************)
Richie ==
    \* "Richard Cunningham"
    InputPerson(1, <<82, 105, 99, 104, 97, 114, 100, 32,
                     67, 117, 110, 110, 105, 110, 103, 104, 97, 109>>,
                "Richie", "male", 19)
Fonzie ==
    \* "Arthur Herbert Fonzarelli"
    InputPerson(2, <<65, 114, 116, 104, 117, 114, 32, 72, 101, 114, 98, 101, 114, 116, 32,
                     70, 111, 110, 122, 97, 114, 101, 108, 108, 105>>,
                "Fonzie", "male", 20)
Joanie ==
    \* "Joanie Cunningham"
    InputPerson(3, <<74, 111, 97, 110, 105, 101, 32,
                     67, 117, 110, 110, 105, 110, 103, 104, 97, 109>>,
                "Joanie", "female", 20)

\* the handler's effect on db, run by thread t
\* lines 63-89: the four calls of db.session.add, the last one with the
\* Fonzie object again
create_input_database_adds(d, t) ==
    LET d2 == session_add(d, t, Richie)
        d3 == session_add(d2, t, Fonzie)
        d4 == session_add(d3, t, Joanie)
    IN  session_add(d4, t, Fonzie)

create_input_database_db(d, t) ==
    LET d1 == create_all(drop_all(d, "input_database"), "input_database")
    IN  session_commit(create_input_database_adds(d1, t), t)

create_input_database(t) ==
    /\ pc[t] = "idle"
    /\ LET c == create_input_database_db(db, t)
       IN  /\ db' = shutdown_session(c.db, t)
           /\ resp' = IF c.ok THEN Response("create_input_database", "ok")
                      ELSE Unhandled("create_input_database", "OperationalError")
    /\ before' = db.tables
    /\ UNCHANGED <<pc, local>>

(***************************************************************************)
(* create_lots_of_people (lines 207-218)                                   *)
(***************************************************************************)
Filler(a) ==
    \* "Someone else"
    InputPerson(a, <<83, 111, 109, 101, 111, 110, 101, 32, 101, 108, 115, 101>>,
                "Too boring to have a nickname", "Unclear", 25)

RECURSIVE add_lots(_, _, _)
\* the for loop over a in range(a, LotsCount + 1)
add_lots(d, t, a) ==
    IF a > LotsCount THEN d ELSE add_lots(session_add(d, t, Filler(a)), t, a + 1)

create_lots_of_people(t) ==
    /\ pc[t] = "idle"
    /\ Len(db.tables["input_database"].rows) + LotsCount <= MaxRows
    /\ LET c == session_commit(add_lots(db, t, 1), t)
       IN  /\ db' = shutdown_session(c.db, t)
           /\ resp' = IF c.ok
                      THEN Response("create_lots_of_people",
                                    "100,000 people created in input database")
                      ELSE Unhandled("create_lots_of_people", "OperationalError")
    /\ before' = db.tables
    /\ UNCHANGED <<pc, local>>

(***************************************************************************)
(* show_input_database (lines 98-131)                                      *)
(***************************************************************************)
\* lines 102-131: the response, given the db
show_input_database_resp(d) ==
    LET q == query_all(d, "InputPerson")
    IN  IF ~q.ok THEN Unhandled("show_input_database", "OperationalError")
        ELSE [Response("show_input_database", "") EXCEPT
                 !.body = [i \in 1..Len(q.rows) |->
                             [id |-> q.rows[i].id, name |-> q.rows[i].name,
                              nickname |-> q.rows[i].nickname,
                              gender |-> q.rows[i].gender, age |-> q.rows[i].age]]]

show_input_database(t) ==
    /\ pc[t] = "idle"
    /\ resp' = show_input_database_resp(db)
    /\ before' = db.tables
    /\ UNCHANGED <<db, pc, local>>

(***************************************************************************)
(* show_output_database (lines 134-162)                                    *)
(***************************************************************************)
\* show_output_database as it would be without the try / except
show_output_database_resp_uncaught(d) ==
    LET q == query_all(d, "OutputPerson")
    IN  IF ~q.ok THEN Unhandled("show_output_database", "OperationalError")
        ELSE IF \E i \in 1..Len(q.rows) : ~first_name(q.rows[i]).ok
        THEN Unhandled("show_output_database", "IndexError")
        ELSE [Response("show_output_database", "") EXCEPT
                 !.body = [i \in 1..Len(q.rows) |->
                             [id |-> q.rows[i].id, name |-> q.rows[i].name,
                              nickname |-> q.rows[i].nickname,
                              gender |-> q.rows[i].gender, age |-> q.rows[i].age,
                              is_cool |-> q.rows[i].is_cool,
                              first_name |-> first_name(q.rows[i]).val]]]

\* lines 137-162: the response, given the db
show_output_database_resp(d) ==
    LET q == query_all(d, "OutputPerson")
    IN  IF ~q.ok
        THEN [Response("show_output_database", "") EXCEPT
                 !.status = "error",
                 !.what_happened =
                     "Could not access output database. Did you create it already?"]
        ELSE IF \E i \in 1..Len(q.rows) : ~first_name(q.rows[i]).ok
        THEN Unhandled("show_output_database", "IndexError")
        ELSE [Response("show_output_database", "") EXCEPT
                 !.body = [i \in 1..Len(q.rows) |->
                             [id |-> q.rows[i].id, name |-> q.rows[i].name,
                              nickname |-> q.rows[i].nickname,
                              gender |-> q.rows[i].gender, age |-> q.rows[i].age,
                              is_cool |-> q.rows[i].is_cool,
                              first_name |-> first_name(q.rows[i]).val]]]

show_output_database(t) ==
    /\ pc[t] = "idle"
    /\ resp' = show_output_database_resp(db)
    /\ before' = db.tables
    /\ UNCHANGED <<db, pc, local>>

(***************************************************************************)
(* process_everything (lines 165-204)                                      *)
(***************************************************************************)
\* the rule as it would be if the comparison ignored case
is_this_person_cool_any_case(input_person) ==
    input_person.nickname \in {"Fonzie", "fonzie"}

\* line 182: the rule that decides is_cool
is_this_person_cool(input_person) == input_person.nickname = "Fonzie"

\* the locals of a run: the list read from the input database, the position i
\* of the for loop in it, and the two counters
NoLocals == [list |-> <<>>, i |-> 1, n |-> 0, m |-> 0]

\* lines 177-178: the locals when the for loop starts
StartLoop(list) == [list |-> list, i |-> 1, n |-> 0, m |-> 0]

\* the iteration as it would be if the cool counter were incremented for everyone
loop_body_count_all(f, t) ==
    LET input_person == f.loc.list[f.loc.i]
        cool == is_this_person_cool(input_person)
        new_output_person ==
            OutputPerson(f.loc.i, input_person.name, input_person.nickname,
                         input_person.gender, input_person.age, cool)
    IN  [db |-> session_add(f.db, t, new_output_person),
         loc |-> [f.loc EXCEPT !.i = @ + 1, !.n = @ + 1, !.m = @ + 1]]

\* lines 179-200: one iteration of the for loop, on f = [db, loc], by thread t
loop_body(f, t) ==
    LET input_person == f.loc.list[f.loc.i]
        cool == is_this_person_cool(input_person)
        new_output_person ==
            OutputPerson(f.loc.i, input_person.name, input_person.nickname,
                         input_person.gender, input_person.age, cool)
    IN  [db |-> session_add(f.db, t, new_output_person),
         loc |-> [f.loc EXCEPT !.i = @ + 1, !.n = @ + 1,
                               !.m = IF cool THEN @ + 1 ELSE @]]

RECURSIVE for_loop(_, _)
\* lines 179-200: the for loop run to its end
for_loop(f, t) ==
    IF f.loc.i > Len(f.loc.list) THEN f ELSE for_loop(loop_body(f, t), t)

\* line 204: the text returned, with its two counts
Processed(loc) ==
    [Response("process_everything", "<n> people processed of which <m> were cool")
        EXCEPT !.n = loc.n, !.m = loc.m]

\* the handler as it would be without line 171
process_everything_no_drop(d, t) ==
    LET d1 == create_all(d, NoBind)
        q == query_all(d1, "InputPerson")
    IN  IF ~q.ok
        THEN [db |-> d1, resp |-> Unhandled("process_everything", "OperationalError")]
        ELSE LET f == for_loop([db |-> d1, loc |-> StartLoop(q.rows)], t)
                 c == session_commit(f.db, t)
             IN  [db |-> c.db, resp |-> Processed(f.loc)]

\* the handler as it would be if line 175 came before lines 171-172
process_everything_query_first(d, t) ==
    LET q == query_all(d, "InputPerson")
        d1 == create_all(drop_all(d, NoBind), NoBind)
    IN  IF ~q.ok
        THEN [db |-> d, resp |-> Unhandled("process_everything", "OperationalError")]
        ELSE LET f == for_loop([db |-> d1, loc |-> StartLoop(q.rows)], t)
                 c == session_commit(f.db, t)
             IN  [db |-> c.db, resp |-> Processed(f.loc)]

\* the whole handler run without interruption: the db it leaves and its response
process_everything_run(d, t) ==
    LET d1 == create_all(drop_all(d, NoBind), NoBind)
        q == query_all(d1, "InputPerson")
    IN  IF ~q.ok
        THEN [db |-> d1, resp |-> Unhandled("process_everything", "OperationalError")]
        ELSE LET f == for_loop([db |-> d1, loc |-> StartLoop(q.rows)], t)
                 c == session_commit(f.db, t)
             IN  [db |-> c.db,
                  resp |-> IF c.ok THEN Processed(f.loc)
                           ELSE Unhandled("process_everything", "OperationalError")]

process_everything(t) ==
    /\ pc[t] = "idle"
    /\ LET r == process_everything_run(db, t)
       IN  /\ db' = shutdown_session(r.db, t)
           /\ resp' = r.resp
    /\ before' = db.tables
    /\ UNCHANGED <<pc, local>>

(***************************************************************************)
(* process_everything statement by statement, for runs that interleave     *)
(* with other requests. pc[t] is the statement thread t executes next.     *)
(***************************************************************************)
\* line 171 as it would be if a run waited for the other runs to end
pe_drop_all_locked(t) ==
    /\ \A u \in Threads : pc[u] = "idle"
    /\ db' = drop_all(db, NoBind)
    /\ pc' = [pc EXCEPT ![t] = "create_all"]
    /\ UNCHANGED <<resp, local, before>>

\* line 171
pe_drop_all(t) ==
    /\ pc[t] = "idle"
    /\ db' = drop_all(db, NoBind)
    /\ pc' = [pc EXCEPT ![t] = "create_all"]
    /\ UNCHANGED <<resp, local, before>>

\* line 172
pe_create_all(t) ==
    /\ pc[t] = "create_all"
    /\ db' = create_all(db, NoBind)
    /\ pc' = [pc EXCEPT ![t] = "query"]
    /\ UNCHANGED <<resp, local, before>>

\* lines 175-178
pe_query(t) ==
    /\ pc[t] = "query"
    /\ LET q == query_all(db, "InputPerson")
       IN  IF q.ok
           THEN /\ local' = [local EXCEPT ![t] = StartLoop(q.rows)]
                /\ pc' = [pc EXCEPT ![t] = "loop"]
                /\ UNCHANGED <<db, resp>>
           ELSE /\ resp' = Unhandled("process_everything", "OperationalError")
                /\ db' = shutdown_session(db, t)
                /\ pc' = [pc EXCEPT ![t] = "idle"]
                /\ UNCHANGED local
    /\ UNCHANGED before

\* lines 179-200, one iteration
pe_loop(t) ==
    /\ pc[t] = "loop"
    /\ local[t].i <= Len(local[t].list)
    /\ LET f == loop_body([db |-> db, loc |-> local[t]], t)
       IN  /\ db' = f.db
           /\ local' = [local EXCEPT ![t] = f.loc]
    /\ UNCHANGED <<resp, pc, before>>

\* lines 202-204
pe_commit(t) ==
    /\ pc[t] = "loop"
    /\ local[t].i > Len(local[t].list)
    /\ LET c == session_commit(db, t)
       IN  /\ db' = shutdown_session(c.db, t)
           /\ resp' = IF c.ok THEN Processed(local[t])
                      ELSE Unhandled("process_everything", "OperationalError")
    /\ pc' = [pc EXCEPT ![t] = "idle"]
    /\ local' = [local EXCEPT ![t] = NoLocals]
    /\ UNCHANGED before

(***************************************************************************)
(* create_input_database statement by statement. The calls of session.add  *)
(* touch only the thread's own session and are taken with the commit.      *)
(***************************************************************************)
\* line 57
cid_drop_all(t) ==
    /\ pc[t] = "idle"
    /\ db' = drop_all(db, "input_database")
    /\ pc' = [pc EXCEPT ![t] = "cid_create_all"]
    /\ UNCHANGED <<resp, local, before>>

\* line 60
cid_create_all(t) ==
    /\ pc[t] = "cid_create_all"
    /\ db' = create_all(db, "input_database")
    /\ pc' = [pc EXCEPT ![t] = "cid_commit"]
    /\ UNCHANGED <<resp, local, before>>

\* lines 63-95
cid_commit(t) ==
    /\ pc[t] = "cid_commit"
    /\ LET c == session_commit(create_input_database_adds(db, t), t)
       IN  /\ db' = shutdown_session(c.db, t)
           /\ resp' = IF c.ok THEN Response("create_input_database", "ok")
                      ELSE Unhandled("create_input_database", "OperationalError")
    /\ pc' = [pc EXCEPT ![t] = "idle"]
    /\ UNCHANGED <<local, before>>

(***************************************************************************)
(* Initial states. The two databases are files that outlive the server:    *)
(* the input database is missing or holds up to MaxInit records written by *)
(* some other program; the output database is missing, empty, or holds the *)
(* output of an earlier run.                                               *)
(***************************************************************************)
ProvisionedPeople ==
    { InputPerson(0, <<>>, "Fonzie", "male", 20),
      \* "a"
      InputPerson(0, <<97>>, "Fonzie", "female", 19),
      \* vertical tab, "a", no-break space, "b"
      InputPerson(0, <<11, 97, 160, 98>>, "fonzie", "male", 19),
      \* space, em space
      InputPerson(0, <<32, 8195>>, "Richie", "female", 20),
      \* "b a"
      InputPerson(0, <<98, 32, 97>>, "Richie", "male", 20) }

InitialInputTables ==
    {NoTable} \cup
    { [exists |-> TRUE, rows |-> insert_all(<<>>, objs, 1)] :
        objs \in UNION { [1..k -> ProvisionedPeople] : k \in 0..MaxInit } }

InitialOutputTables ==
    {NoTable, EmptyTable} \cup
    { [exists |-> TRUE,
       rows |-> <<Row(OutputPerson(0, p.name, p.nickname, p.gender, p.age,
                                   is_this_person_cool(p)), 1)>>] :
        p \in ProvisionedPeople }

\* the server starts on the input table i and the output table o
StartOn(i, o) ==
    /\ db = [tables |-> [b \in BindKeys |-> IF b = NoBind THEN o ELSE i],
             session |-> [t \in Threads |-> <<>>]]
    /\ resp = NoResponse
    /\ pc = [t \in Threads |-> "idle"]
    /\ local = [t \in Threads |-> NoLocals]
    /\ before = db.tables

Init == \E i \in InitialInputTables, o \in InitialOutputTables : StartOn(i, o)

(***************************************************************************)
(* Spec: requests are served one after the other, each handler running to  *)
(* its end before the next one starts.                                     *)
(***************************************************************************)
Next ==
    \E t \in Threads :
        \/ create_input_database(t)
        \/ create_lots_of_people(t)
        \/ show_input_database(t)
        \/ show_output_database(t)
        \/ process_everything(t)

Spec == Init /\ [][Next]_vars

\* the initial states of SpecSingle and SpecConc: the records differ in what a
\* run reads of them (the nickname) and in nothing else
ConcPeople ==
    { p \in ProvisionedPeople : p.name \in {<<97>>, <<98, 32, 97>>} }

ConcInputTables ==
    {NoTable} \cup
    { [exists |-> TRUE, rows |-> insert_all(<<>>, objs, 1)] :
        objs \in UNION { [1..k -> ConcPeople] : k \in 0..MaxInit } }

ConcOutputTables ==
    { o \in InitialOutputTables : o.rows = <<>> \/ o.rows[1].name = <<97>> }

InitConc == \E i \in ConcInputTables, o \in ConcOutputTables : StartOn(i, o)

(***************************************************************************)
(* SpecSingle: one process_everything at a time, run by thread 1 statement *)
(* by statement, while the other threads serve the other requests;         *)
(* create_input_database runs statement by statement too, and             *)
(* show_output_database reads the output table in one statement. The two   *)
(* handlers that only read or only append to the input table are left out. *)
(***************************************************************************)
NextSingle ==
    \/ pe_drop_all(1)
    \/ pe_create_all(1)
    \/ pe_query(1)
    \/ pe_loop(1)
    \/ pe_commit(1)
    \/ \E t \in Threads \ {1} :
          \/ cid_drop_all(t)
          \/ cid_create_all(t)
          \/ cid_commit(t)
          \/ show_output_database(t)

SpecSingle == InitConc /\ [][NextSingle]_vars

(***************************************************************************)
(* SpecConc: every thread can run process_everything, statement by         *)
(* statement, and the runs interleave.                                     *)
(***************************************************************************)
NextConc ==
    \E t \in Threads :
        \/ pe_drop_all(t)
        \/ pe_create_all(t)
        \/ pe_query(t)
        \/ pe_loop(t)
        \/ pe_commit(t)
        \/ show_output_database(t)

SpecConc == InitConc /\ [][NextConc]_vars

(***************************************************************************)
(* Properties.                                                             *)
(***************************************************************************)
Src == db.tables["input_database"]
Dst == db.tables[NoBind]

Ran == resp.op = "process_everything"
RanOK == Ran /\ resp.http = 200

\* the destination record expected for the source record s, with primary key id
ExpectedRow(s, id) ==
    [id |-> id, name |-> s.name, nickname |-> s.nickname, gender |-> s.gender,
     age |-> s.age, is_cool |-> (s.nickname = "Fonzie")]

\* C1: after a successful process_everything the destination holds one record
\* per source record, in the same order, with name, nickname, gender and age
\* copied and is_cool true exactly for the nickname "Fonzie".
C1_CopyAndClassify ==
    RanOK =>
        /\ Dst.exists
        /\ Len(Dst.rows) = Len(Src.rows)
        /\ \A i \in 1..Len(Src.rows) :
              /\ Dst.rows[i].name = Src.rows[i].name
              /\ Dst.rows[i].nickname = Src.rows[i].nickname
              /\ Dst.rows[i].gender = Src.rows[i].gender
              /\ Dst.rows[i].age = Src.rows[i].age
              /\ Dst.rows[i].is_cool = (Src.rows[i].nickname = "Fonzie")

C1_Witness ==
    /\ RanOK
    /\ \E i, j \in 1..Len(Dst.rows) :
          /\ Dst.rows[i].is_cool
          /\ ~Dst.rows[j].is_cool /\ Dst.rows[j].nickname = "fonzie"

\* C2: after each successful process_everything of a sequence of runs, the
\* destination holds only that run's output: as many records as the source
\* holds, numbered from 1 by the recreated table, none left from before.
C2_FullReplacement ==
    RanOK =>
        /\ Len(Dst.rows) = Len(Src.rows)
        /\ \A i \in 1..Len(Dst.rows) : Dst.rows[i].id = i
        /\ \A i \in 1..Len(Dst.rows) :
              \E j \in 1..Len(Src.rows) : Dst.rows[i] = ExpectedRow(Src.rows[j], i)

\* a run that follows an earlier run with a larger output
C2_Witness ==
    /\ RanOK
    /\ Len(before[NoBind].rows) = 3 + LotsCount
    /\ Len(Dst.rows) = 3

\* C3: a successful process_everything reports n = the number of source
\* records = the number of destination records, and m = the number of
\* "Fonzie" source records = the number of is_cool destination records,
\* with 0 <= m <= n, and (0, 0) on an empty source.
C3_Counts ==
    RanOK =>
        /\ resp.n = Len(Src.rows)
        /\ resp.n = Len(Dst.rows)
        /\ resp.m = Cardinality({i \in 1..Len(Src.rows) : Src.rows[i].nickname = "Fonzie"})
        /\ resp.m = Cardinality({i \in 1..Len(Dst.rows) : Dst.rows[i].is_cool})
        /\ 0 <= resp.m /\ resp.m <= resp.n
        /\ (Src.rows = <<>> => resp.n = 0 /\ resp.m = 0)

C3_Witness == RanOK /\ 0 < resp.m /\ resp.m < resp.n

\* C4: process_everything called while the source table does not exist raises
\* the store's error (no count text is returned) and leaves the destination
\* table existing and empty, whatever it held before.
C4_SourceMissing ==
    (Ran /\ ~before["input_database"].exists) =>
        /\ resp.http = 500
        /\ resp.raised = "OperationalError"
        /\ Dst = EmptyTable

C4_Witness ==
    /\ Ran
    /\ ~before["input_database"].exists
    /\ before[NoBind].rows # <<>>
    /\ resp.http = 500

\* C5: show_output_database on a destination table that does not exist
\* answers the JSON object {status: "error", what_happened: non-empty} and
\* changes no table; after any process_everything the destination table
\* exists, and once it exists it exists after every later request, so a later
\* show_output_database does not answer that object.
C5_ListDestinationError ==
    /\ (resp.op = "show_output_database" /\ ~Dst.exists) =>
          /\ resp.http = 200
          /\ resp.status = "error"
          /\ resp.what_happened # ""
          /\ db.tables = before
    /\ Ran => Dst.exists
    /\ before[NoBind].exists => Dst.exists
    /\ Dst.exists => show_output_database_resp(db).status # "error"

C5_Witness ==
    /\ resp.op = "show_output_database"
    /\ ~Dst.exists
    /\ resp.status = "error"

\* C6: process_everything leaves the source table as it was, and
\* create_input_database leaves the destination table as it was.
C6_Frame ==
    /\ Ran => Src = before["input_database"]
    /\ resp.op = "create_input_database" => Dst = before[NoBind]

C6_Witness ==
    /\ RanOK
    /\ Src.rows # <<>>
    /\ before[NoBind] # Dst

\* the three sample records as show_input_database lists them
SeededList ==
    << [id |-> 1, name |-> Richie.name, nickname |-> "Richie", gender |-> "male",
        age |-> 19],
       [id |-> 2, name |-> Fonzie.name, nickname |-> "Fonzie", gender |-> "male",
        age |-> 20],
       [id |-> 3, name |-> Joanie.name, nickname |-> "Joanie", gender |-> "female",
        age |-> 20] >>

\* C7: after create_input_database, whatever the source held before,
\* show_input_database lists exactly the three sample records, once each,
\* with distinct ids, in the order Richie, Fonzie, Joanie.
C7_Seeded ==
    resp.op = "create_input_database" =>
        /\ resp.http = 200 /\ resp.text = "ok"
        /\ show_input_database_resp(db).http = 200
        /\ show_input_database_resp(db).body = SeededList
        /\ \A i, j \in 1..Len(SeededList) :
              i # j => SeededList[i].id # SeededList[j].id

\* the source held the sample records and filler records before the call
C7_Witness ==
    /\ resp.op = "create_input_database"
    /\ Len(before["input_database"].rows) > 3

NoTokens(name) == \A k \in 1..Len(name) : name[k] \in Whitespace

\* fn is the first maximal run of non-whitespace characters of name
IsFirstToken(fn, name) ==
    /\ fn # <<>>
    /\ \A k \in 1..Len(fn) : fn[k] \notin Whitespace
    /\ \E i \in 1..Len(name) :
          /\ \A k \in 1..(i - 1) : name[k] \in Whitespace
          /\ i + Len(fn) - 1 <= Len(name)
          /\ SubSeq(name, i, i + Len(fn) - 1) = fn
          /\ (i + Len(fn) - 1 = Len(name) \/ name[i + Len(fn)] \in Whitespace)

\* C8: show_output_database reports, for every destination record, first_name
\* = the first whitespace-delimited token of name; if a record's name has no
\* token the handler raises IndexError, which is not turned into the JSON
\* error object.
C8_FirstName ==
    (resp.op = "show_output_database" /\ Dst.exists) =>
        IF \E i \in 1..Len(Dst.rows) : NoTokens(Dst.rows[i].name)
        THEN /\ resp.http = 500
             /\ resp.raised = "IndexError"
             /\ resp.status # "error"
        ELSE /\ resp.http = 200
             /\ Len(resp.body) = Len(Dst.rows)
             /\ \A i \in 1..Len(Dst.rows) :
                   IsFirstToken(resp.body[i].first_name, Dst.rows[i].name)

C8_Witness ==
    /\ resp.op = "show_output_database"
    /\ resp.raised = "IndexError"
    /\ \E i \in 1..Len(Dst.rows) : Dst.rows[i].name = <<>>

\* the names with several tokens and leading whitespace are listed too
C8_WitnessTokens ==
    /\ resp.op = "show_output_database"
    /\ resp.http = 200
    /\ \E i \in 1..Len(resp.body) :
          /\ resp.body[i].name = <<11, 97, 160, 98>>
          /\ resp.body[i].first_name = <<97>>

\* C9: while the one process_everything is in progress, show_output_database
\* would answer the error object or the empty list, never some of the run's
\* records; when the run has answered, all its records are there.
C9_CommitAsUnit ==
    /\ pc[1] # "idle" =>
          \/ show_output_database_resp(db).status = "error"
          \/ /\ show_output_database_resp(db).http = 200
             /\ show_output_database_resp(db).body = <<>>
    /\ (pc[1] = "idle" /\ RanOK) => Len(Dst.rows) = resp.n

\* the run has buffered some of its records and has more to add
C9_Witness ==
    /\ pc[1] = "loop"
    /\ Len(db.session[1]) >= 1
    /\ local[1].i <= Len(local[1].list)
    /\ show_output_database_resp(db).body = <<>>
    /\ show_output_database_resp(db).status # "error"

\* rows is k outputs of a run on the source rows src, one after the other
Copies(rows, src, k) ==
    /\ Len(rows) = k * Len(src)
    /\ \A j \in 1..Len(rows) :
          rows[j] = ExpectedRow(src[((j - 1) % Len(src)) + 1], j)

\* C10: no lock protects process_everything: a thread that is idle can start
\* a run whatever the other threads are doing, and when the runs have ended
\* after a successful one the destination holds the output of one run or of
\* several runs one after the other (more records than the source).
C10_NoLock ==
    /\ \A t \in Threads : pc[t] = "idle" => ENABLED pe_drop_all(t)
    /\ ((\A t \in Threads : pc[t] = "idle") /\ RanOK) =>
          \E k \in 1..NumThreads : Copies(Dst.rows, Src.rows, k)

\* both runs dropped and recreated the table before either committed
C10_Witness ==
    /\ \A t \in Threads : pc[t] = "idle"
    /\ RanOK
    /\ Src.rows # <<>>
    /\ Len(Dst.rows) = 2 * Len(Src.rows)

====
